---- MODULE Spec2Model ----
(***************************************************************************)
(* The offline cache of aps-disconnected: the service worker               *)
(* (public/service-worker.js) that pre-caches the application, intercepts  *)
(* its requests and runs the CACHE_URN / CLEAR_URN / LIST_CACHES tasks     *)
(* the page sends it over a MessageChannel.                                *)
(*                                                                         *)
(* Strings are sequences of tokens: a literal fragment of the source       *)
(* ("https://developer.api.autodesk.com", "/index.html", "/manifest/") is  *)
(* one token, and every character of a model urn is one token, so that     *)
(* String.prototype.includes / endsWith are sequence operations.           *)
(* One action is one job of the worker's event loop: an event handler or   *)
(* the continuation of a settled promise, with the microtasks it runs.     *)
(***************************************************************************)
EXTENDS Naturals, Sequences, FiniteSets, TLC

\* ------------------------------------------------------------- bounds
\* Messages plus intercepted requests in one run.
MaxOps == 3

\* Messages and intercepted requests being served at the same time.
MaxBusy == 2

\* Failures in one run: a fetch that rejects or answers another status
\* than 2xx, a cache operation that rejects.
MaxFaults == 1

\* The pages of the application the browser may have open.
MaxPages == 2

\* The children a node of a manifest may have.
MaxKids == 2
MaxClicks == 2

\* ------------------------------------------------------------ strings
Contains(s, sub) ==
    \E i \in 0..Len(s) :
        /\ i + Len(sub) <= Len(s)
        /\ SubSeq(s, i + 1, i + Len(sub)) = sub

EndsWith(s, suf) ==
    /\ Len(suf) <= Len(s)
    /\ SubSeq(s, Len(s) - Len(suf) + 1, Len(s)) = suf

SeqIncludes(list, x) == \E i \in 1..Len(list) : list[i] = x

Range(s) == {s[i] : i \in 1..Len(s)}

\* The part of a url before its query string.
StripSearch(u) ==
    IF \E i \in 1..Len(u) : u[i] = "?"
    THEN SubSeq(u, 1, (CHOOSE i \in 1..Len(u) :
                          /\ u[i] = "?"
                          /\ \A j \in 1..(i - 1) : u[j] # "?") - 1)
    ELSE u

\* encodeURIComponent on one token: "/", ":" and "?" are escaped, letters,
\* digits and "." are kept.
EscapeChar(c) ==
    CASE c = "/" -> "%2F"
      [] c = "?" -> "%3F"
      [] c = "/output/" -> "%2Foutput%2F"
      [] c = "urn:adsk.viewing:fs.file:" -> "urn%3Aadsk.viewing%3Afs.file%3A"
      [] OTHER   -> c

encodeURIComponent(s) == [i \in 1..Len(s) |-> EscapeChar(s[i])]

\* The origin the worker is served from (self.location.origin).
Origin == <<"https://app.example">>

ApsHost == "https://developer.api.autodesk.com"

\* A url as the Request constructor resolves it against the worker's origin:
\* one that starts with a path is origin-relative.
ResolveUrl(u) ==
    IF u # <<>> /\ u[1] \notin {Origin[1], ApsHost} THEN Origin \o u ELSE u

\* --------------------------------------------------- program constants
CACHE_NAME == "aps-disconnected-v4"

\* The cache of the preceding generation tag: no code deletes a cache, so a
\* browser that ran the previous version still holds it, created first.
PRIOR_CACHE_NAME == "aps-disconnected-v3"

CacheOrder == <<PRIOR_CACHE_NAME, CACHE_NAME>>

ViewerUrl(path) == <<ApsHost, "/modelderivative/v2/viewers/7.*/">> \o path

EnvUrl(file) == ViewerUrl(<<"res/environments/", file>>)

TexUrl(file) == ViewerUrl(<<"res/textures/", file>>)

STATIC_URLS ==
    << <<"/">>,
       <<"/index.html">>,
       <<"/fonts/Artifakt_Element_Regular.woff2">>,
       <<"/javascript/main.js">>,
       <<"/stylesheets/main.css">>,
       ViewerUrl(<<"style.css">>),
       ViewerUrl(<<"viewer3D.js">>),
       ViewerUrl(<<"lmvworker.js">>),
       ViewerUrl(<<"res/locales/en/allstrings.json">>),
       EnvUrl("SharpHighlights_irr.logluv.dds"),
       EnvUrl("SharpHighlights_mipdrop.logluv.dds"),
       EnvUrl("boardwalk_irr.logluv.dds"),
       EnvUrl("boardwalk_mipdrop.logluv.dds"),
       TexUrl("VCarrows.png"),
       TexUrl("VCarrowsS0.png"),
       TexUrl("VCarrowsS1.png"),
       TexUrl("VCcontext.png"),
       TexUrl("VCcontextS.png"),
       TexUrl("VCedge1.png"),
       TexUrl("VChome.png"),
       TexUrl("VChomeS.png"),
       TexUrl("cardinalPoint.png"),
       TexUrl("centerMarker_X.png"),
       TexUrl("radial-fade-grid.png") >>

API_URLS ==
    << <<"/api/token">>,
       <<"/api/models">> >>

TokenSuffix == <<"/api/token">>

baseUrl == <<ApsHost, "/derivativeservice/v2">>

\* ---------------------------------------------------------- responses
\* A response is its status and the code path that fetched it.
Response(status, by) == [status |-> status, by |-> by]

IsOk(status) == status \in {200}

\* The ways a fetch resolves: with a 2xx answer or with another status.
Answered == {"http_200", "http_404"}

StatusOf(outcome) == IF outcome = "http_200" THEN 200 ELSE 404

\* ------------------------------------------------------ the Cache API
\* A cache is the set of its entries {url, resp}. The order of insertion,
\* which only orders the list cache.keys() gives, is not kept.
\* A put that adds its entry beside the one already under the url.
CachePutBeside(store, url, resp) ==
    store \cup {[url |-> ResolveUrl(url), resp |-> resp]}

\* cache.put: the entry under the url is replaced (put-or-overwrite).
CachePut(store, url, resp) ==
    {e \in store : e.url # ResolveUrl(url)}
        \cup {[url |-> ResolveUrl(url), resp |-> resp]}

\* cache.delete(request): the entry of that url.
CacheDelete(store, url) == {e \in store : e.url # url}

KeySet(store) == {e.url : e \in store}

RECURSIVE Enumerate(_)
\* The elements of a finite set as a list without repetition.
Enumerate(S) ==
    IF S = {} THEN <<>>
    ELSE LET x == CHOOSE y \in S : TRUE IN <<x>> \o Enumerate(S \ {x})

\* cache.keys(), and the url of each Request it gives.
CacheKeys(store) == Enumerate(KeySet(store))

RECURSIVE AddAll(_, _, _)
\* cache.addAll(urls) once every fetch has answered 2xx.
AddAll(store, urls, by) ==
    IF urls = <<>> THEN store
    ELSE AddAll(CachePut(store, Head(urls), Response(200, by)), Tail(urls), by)

\* cache.match(url) without ignoreSearch: the query string counts.
MatchInExact(store, url) == {e \in store : e.url = url}

\* cache.match(url, {ignoreSearch: true}) on one cache: the entries it may give.
MatchIn(store, url) == {e \in store : StripSearch(e.url) = StripSearch(url)}

\* caches.match: every cache of the origin in the order of their creation,
\* the first that holds a match decides.
CachesMatch(cs, url) ==
    LET hits == {n \in 1..Len(CacheOrder) : MatchIn(cs[CacheOrder[n]], url) # {}}
    IN IF hits = {} THEN {}
       ELSE MatchIn(cs[CacheOrder[CHOOSE n \in hits : \A m \in hits : n <= m]],
                    url)

VARIABLES
    swState,    \* lifecycle of the worker
    installPc,  \* where installAsync stands
    caches,     \* cache name -> entries
    tasks,      \* the messages received, in the order of their arrival
    reqs,       \* the intercepted requests, in the order of their arrival
    faults,     \* the failures so far
    attempt,    \* the number of the worker instance of this version
    oldState,   \* lifecycle of the worker of the preceding version
    pages,      \* page -> its controller and how it came by it
    route,      \* the server's GET /api/models/:urn/files request
    fg          \* the foreground page: clicks, messages, overlay runs

vars == <<swState, installPc, caches, tasks, reqs, faults,
          attempt, oldState, pages, route, fg>>

\* What the worker's own handlers never touch.
outsideWorker == <<attempt, oldState, pages, route, fg>>

\* What the lifecycle of the worker never touches.
outsideLifecycle == <<route, fg>>

\* An outcome is drawn: a failure while the run may still have one.
Draw(failed) ==
    IF failed THEN faults < MaxFaults /\ faults' = faults + 1
    ELSE faults' = faults

\* What the preceding version left in its cache: the manifest of model a,
\* cached by a CACHE_URN task of that version.
PriorEntries ==
    { [url |-> baseUrl \o <<"/manifest/", "a">>,
       resp |-> Response(200, "prior")] }

PageIds == 1..MaxPages

Page(ctl, via) == [ctl |-> ctl, via |-> via]

ClosedPage == Page("closed", "none")

\* A page the preceding version controls.
OldPage == Page("old", "navigation")

\* An open page no worker controls (loaded with a forced reload).
FreePage == Page("none", "none")

IsOpen(pg) == pg.ctl # "closed"

RouteIdle == [pc |-> "idle"]

FgIdle ==
    [ready |-> FALSE, dom |-> <<>>, clicks |-> <<>>, outbox |-> <<>>,
     overlays |-> <<>>]

\* The state shared by every start: nothing installed, the cache of the
\* preceding version on disk, its worker active.
InitWorker ==
    /\ swState = "UNINSTALLED"
    /\ installPc = "idle"
    /\ caches = [n \in Range(CacheOrder) |->
                    IF n = PRIOR_CACHE_NAME THEN PriorEntries ELSE {}]
    /\ tasks = <<>>
    /\ reqs = <<>>
    /\ faults = 0
    /\ attempt = 0
    /\ oldState = "ACTIVE"

\* One page of the preceding version is open, the others are open and
\* uncontrolled.
Init ==
    /\ InitWorker
    /\ pages = [p \in PageIds |-> IF p = 1 THEN OldPage ELSE FreePage]
    /\ route = RouteIdle
    /\ fg = FgIdle

\* ------------------------------------------------------------ install
\* The install event: skipWaiting, then the first addAll is in flight.
\* A worker whose install failed is installed again by the next page load.
InstallStart ==
    /\ swState \in {"UNINSTALLED", "REDUNDANT"}
    /\ \E p \in PageIds : IsOpen(pages[p])
    /\ swState' = "INSTALLING"
    /\ installPc' = "static"
    /\ attempt' = attempt + 1
    /\ UNCHANGED <<caches, tasks, reqs, faults, oldState, pages>>
    /\ UNCHANGED outsideLifecycle

\* An install whose first addAll is not waited for: its failure is lost.
InstallStaticUnwatched ==
    /\ swState = "INSTALLING"
    /\ installPc = "static"
    /\ \E ok \in BOOLEAN :
          /\ Draw(~ok)
          /\ caches' = IF ok THEN [caches EXCEPT ![CACHE_NAME] =
                                     AddAll(@, STATIC_URLS, "install")]
                       ELSE caches
    /\ installPc' = "api"
    /\ UNCHANGED <<swState, tasks, reqs, attempt, oldState, pages>>
    /\ UNCHANGED outsideLifecycle

\* cache.addAll(STATIC_URLS) settles: all stored, or none and install fails.
InstallStatic ==
    /\ swState = "INSTALLING"
    /\ installPc = "static"
    /\ \E ok \in BOOLEAN :
          /\ Draw(~ok)
          /\ caches' = IF ok THEN [caches EXCEPT ![CACHE_NAME] =
                                     AddAll(@, STATIC_URLS, "install")]
                       ELSE caches
          /\ installPc' = IF ok THEN "api" ELSE "idle"
          /\ swState' = IF ok THEN swState ELSE "REDUNDANT"
    /\ UNCHANGED <<tasks, reqs, attempt, oldState, pages>>
    /\ UNCHANGED outsideLifecycle

\* Activation begins: the pages that used the registration pass from the
\* worker of the preceding version to this one.
TakeOver(pgs) ==
    [p \in DOMAIN pgs |->
        IF pgs[p].ctl = "old" THEN Page("new", "activation") ELSE pgs[p]]

\* cache.addAll(API_URLS) settles; with skipWaiting the worker does not
\* wait for the pages of the preceding version to close: activation begins
\* and the preceding worker is redundant.
InstallApi ==
    /\ swState = "INSTALLING"
    /\ installPc = "api"
    /\ \E ok \in BOOLEAN :
          /\ Draw(~ok)
          /\ caches' = IF ok THEN [caches EXCEPT ![CACHE_NAME] =
                                     AddAll(@, API_URLS, "install")]
                       ELSE caches
          /\ swState' = IF ok THEN "ACTIVATING" ELSE "REDUNDANT"
          /\ oldState' = IF ok THEN "REDUNDANT" ELSE oldState
          /\ pages' = IF ok THEN TakeOver(pages) ELSE pages
    /\ installPc' = "idle"
    /\ UNCHANGED <<tasks, reqs, attempt>>
    /\ UNCHANGED outsideLifecycle

\* A worker that activates without claiming the open pages.
ClaimNothing(pgs) == pgs

\* clients.claim(): every open page this worker does not control yet comes
\* under its control, without a reload.
ClaimClients(pgs) ==
    [p \in DOMAIN pgs |->
        IF IsOpen(pgs[p]) /\ pgs[p].ctl # "new"
        THEN Page("new", "claim") ELSE pgs[p]]

\* activateAsync: clients.claim() settles and the worker controls the pages.
Activate ==
    /\ swState = "ACTIVATING"
    /\ swState' = "ACTIVE"
    /\ pages' = ClaimClients(pages)
    /\ UNCHANGED <<installPc, caches, tasks, reqs, faults, attempt, oldState>>
    /\ UNCHANGED outsideLifecycle

\* The browser opens a page of the application: a navigation is controlled
\* by the active worker of the moment, a forced reload by none.
OpenPage(p, forced) ==
    /\ ~IsOpen(pages[p])
    /\ pages' = [pages EXCEPT ![p] =
          IF forced THEN FreePage
          ELSE IF swState \in {"ACTIVATING", "ACTIVE"} THEN Page("new", "navigation")
          ELSE IF oldState = "ACTIVE" THEN OldPage
          ELSE FreePage]
    /\ UNCHANGED <<swState, installPc, caches, tasks, reqs, faults,
                   attempt, oldState>>
    /\ UNCHANGED outsideLifecycle

\* The browser closes a page.
ClosePage(p) ==
    /\ IsOpen(pages[p])
    /\ pages' = [pages EXCEPT ![p] = ClosedPage]
    /\ UNCHANGED <<swState, installPc, caches, tasks, reqs, faults,
                   attempt, oldState>>
    /\ UNCHANGED outsideLifecycle

\* ----------------------------------------------------- message tasks
Operations == {"CACHE_URN", "CLEAR_URN", "LIST_CACHES", "OTHER"}

\* The model urns the page can name; the first is a prefix of the second.
Urns == {<<"a">>, <<"a", "b">>}

NoUrn == <<>>

DerivativePrefix == <<"urn:adsk.viewing:fs.file:">>

\* What GET /api/models/:urn/files answers: for model a one package with one
\* asset, for model ab (a manifest without derivatives) the empty list.
Derivatives(urn) ==
    LET dir == DerivativePrefix \o urn \o <<"/output/">>
    IN IF urn = <<"a">>
       THEN << [urn |-> dir \o <<"m.svf">>, basePath |-> dir,
                files |-> << <<"t.png">> >>] >>
       ELSE <<>>

OkReply(urls) == [status |-> "ok", urls |-> urls]

ErrorReply(err) == [error |-> err]

IsOkReply(r) == "status" \in DOMAIN r /\ r.status = "ok"

IsErrorReply(r) == "error" \in DOMAIN r

\* The try branch of a case of messageAsync: one postMessage.
TryReply(urls) == <<OkReply(urls)>>

\* A catch branch that only logs the error.
CatchReplyLogOnly(err) == <<>>

\* The catch branch of a case of messageAsync: one postMessage.
CatchReply(err) == <<ErrorReply(err)>>

ManifestUrl(urn) == baseUrl \o <<"/manifest/">> \o urn

DerivUrl(path) == baseUrl \o <<"/derivatives/">> \o encodeURIComponent(path)

RECURSIVE FileUrls(_, _)
FileUrls(basePath, files) ==
    IF files = <<>> THEN <<>>
    ELSE <<DerivUrl(basePath \o Head(files))>> \o FileUrls(basePath, Tail(files))

RECURSIVE DerivativeUrls(_)
DerivativeUrls(derivatives) ==
    IF derivatives = <<>> THEN <<>>
    ELSE <<DerivUrl(Head(derivatives).urn)>>
            \o FileUrls(Head(derivatives).basePath, Head(derivatives).files)
            \o DerivativeUrls(Tail(derivatives))

\* cacheUrn without the fetch of the manifest url.
CacheUrnUrlsNoManifest(urn, derivatives) == DerivativeUrls(derivatives)

\* The urls cacheUrn pushes a fetch for, in the order it pushes them.
CacheUrnUrls(urn, derivatives) ==
    <<ManifestUrl(urn)>> \o DerivativeUrls(derivatives)

\* Promise.allSettled in the place of Promise.all: waits for every promise
\* and fulfils whatever their outcomes.
PromiseAllSettled(fetches) ==
    IF \A i \in 1..Len(fetches) : fetches[i].st # "inflight" THEN "fulfilled"
    ELSE "pending"

\* Promise.all over the fetch-then-put promises.
PromiseAll(fetches) ==
    IF \E i \in 1..Len(fetches) : fetches[i].st = "rejected" THEN "rejected"
    ELSE IF \A i \in 1..Len(fetches) : fetches[i].st = "stored" THEN "fulfilled"
    ELSE "pending"

\* What the then-callback of one fetch of cacheUrn hands to cache.put.
PutOfFetch(store, url, status) ==
    CachePut(store, url, Response(status, "cacheUrn"))

\* A clearUrn that picks the keys whose url ends with the urn.
clearUrnRequestsEndsWith(store, urn) ==
    SelectSeq(CacheKeys(store), LAMBDA u : EndsWith(u, urn))

\* clearUrn: the keys of the store whose url includes the urn.
clearUrnRequests(store, urn) ==
    SelectSeq(CacheKeys(store), LAMBDA u : Contains(u, urn))

\* A listCached that lists the urls of the models only.
listCachedModels(store) ==
    SelectSeq(CacheKeys(store), LAMBDA u : Contains(u, baseUrl))

\* listCached: the url of every key of the store.
listCached(store) == CacheKeys(store)

Replied(t) == t.replies # <<>>

RepliedOk(t) == Replied(t) /\ IsOkReply(t.replies[1])

\* A task with work left: no reply yet, or fetches of it still under way.
Busy(t) ==
    \/ t.pc \notin {"replied", "ignored"}
    \/ \E i \in 1..Len(t.fetches) : t.fetches[i].st = "inflight"

TaskIds == 1..Len(tasks)

OpCount == Len(tasks) + Len(reqs)

ReqIds == 1..Len(reqs)

\* An intercepted request not yet answered, or whose refresh is under way.
Serving(r) == r.pc \notin {"done", "failed"} \/ r.refresh = "inflight"

BusyCount ==
    Cardinality({k \in TaskIds : Busy(tasks[k])})
        + Cardinality({h \in ReqIds : Serving(reqs[h])})

\* The message event: the page's submitWorkerTask posted {operation, urn}
\* with a reply port, and messageAsync runs to its first await.
Submit(op, urn) ==
    /\ swState = "ACTIVE"
    /\ OpCount < MaxOps
    /\ BusyCount < MaxBusy
    /\ tasks' =
         [k \in TaskIds |->
             IF tasks[k].op = "CLEAR_URN" /\ Busy(tasks[k])
             THEN [tasks[k] EXCEPT !.quiet = FALSE] ELSE tasks[k]]
         \o << [op |-> op,
                urn |-> urn,
                pc |-> CASE op = "CACHE_URN" -> "listing"
                         [] op = "CLEAR_URN" -> "keys"
                         [] op = "LIST_CACHES" -> "keys"
                         [] OTHER -> "ignored",
                fetches |-> <<>>,
                requests |-> <<>>,
                pending |-> <<>>,
                replies |-> <<>>,
                \* history: the CACHE_URN tasks answered ok before this one
                seenOk |-> IF op \in {"CLEAR_URN", "LIST_CACHES"}
                           THEN {k \in TaskIds : tasks[k].op = "CACHE_URN"
                                                   /\ RepliedOk(tasks[k])}
                           ELSE {},
                \* history: the tasks with work left when this one arrived
                busyAtIssue |-> IF op = "CACHE_URN"
                                THEN {k \in TaskIds : Busy(tasks[k])}
                                ELSE {},
                \* history: the tasks with work left when this one replied ok
                busyAtReply |-> {},
                \* history: the keys of the store when this one arrived
                pre |-> IF op = "CLEAR_URN" THEN KeySet(caches[CACHE_NAME])
                        ELSE {},
                \* history: no other task had work left while this one ran
                quiet |-> op = "CLEAR_URN"
                          /\ \A k \in TaskIds : ~Busy(tasks[k])] >>
    /\ UNCHANGED <<swState, installPc, caches, reqs, faults>>
    /\ UNCHANGED outsideWorker

\* cacheUrn: fetch(`/api/models/${urn}/files`) and res.json() settle. On a
\* list the fetches of all its urls start; on a failure messageAsync catches.
ListingSettle(t, outcome) ==
    /\ tasks[t].op = "CACHE_URN"
    /\ tasks[t].pc = "listing"
    /\ Draw(outcome # "ok")
    /\ IF outcome = "ok"
       THEN tasks' = [tasks EXCEPT
               ![t].pc = "fetching",
               ![t].fetches =
                   LET urls == CacheUrnUrls(tasks[t].urn, Derivatives(tasks[t].urn))
                   IN [i \in 1..Len(urls) |->
                         [url |-> urls[i], st |-> "inflight", status |-> 0,
                          \* history: settled after the reply of the task
                          late |-> FALSE]]]
       ELSE tasks' = [tasks EXCEPT
               ![t].pc = "replied",
               ![t].replies = CatchReply(outcome)]
    /\ UNCHANGED <<swState, installPc, caches, reqs>>
    /\ UNCHANGED outsideWorker

\* A cacheUrn that answers ok as soon as one of its fetches is stored.
FetchSettleFirstWins(t, i, outcome) ==
    LET PromiseAny(g) ==
            IF \E j \in 1..Len(g) : g[j].st = "rejected" THEN "rejected"
            ELSE IF \E j \in 1..Len(g) : g[j].st = "stored" THEN "fulfilled"
            ELSE "pending"
    IN
    /\ tasks[t].op = "CACHE_URN"
    /\ i \in 1..Len(tasks[t].fetches)
    /\ tasks[t].fetches[i].st = "inflight"
    /\ Draw(outcome # "http_200")
    /\ LET f == [tasks[t].fetches EXCEPT
                    ![i].st = IF outcome \in Answered THEN "stored"
                              ELSE "rejected",
                    ![i].status = IF outcome \in Answered THEN StatusOf(outcome)
                                  ELSE @,
                    ![i].late = Replied(tasks[t])]
           urls == [j \in 1..Len(f) |-> f[j].url]
       IN /\ caches' = IF outcome \in Answered
                       THEN [caches EXCEPT ![CACHE_NAME] =
                               PutOfFetch(@, tasks[t].fetches[i].url,
                                          StatusOf(outcome))]
                       ELSE caches
          /\ tasks' = [tasks EXCEPT
                ![t].fetches = f,
                ![t].pc = IF PromiseAny(f) = "pending" THEN @ ELSE "replied",
                ![t].replies =
                    IF Replied(tasks[t]) \/ PromiseAny(f) = "pending" THEN @
                    ELSE IF PromiseAny(f) = "fulfilled" THEN TryReply(urls)
                    ELSE CatchReply(outcome),
                ![t].busyAtReply =
                    IF ~Replied(tasks[t]) /\ PromiseAny(f) = "fulfilled"
                    THEN {k \in TaskIds \ {t} : Busy(tasks[k])}
                    ELSE @]
    /\ UNCHANGED <<swState, installPc, reqs>>
    /\ UNCHANGED outsideWorker

\* One fetch(url).then(resp => cache.put(url, resp)) of cacheUrn settles:
\* the upstream answered (any status) and the response is stored, or the
\* fetch or the put rejected. Promise.all settles with the first rejection or
\* the last fulfilment, and messageAsync posts its reply.
FetchSettle(t, i, outcome) ==
    /\ tasks[t].op = "CACHE_URN"
    /\ i \in 1..Len(tasks[t].fetches)
    /\ tasks[t].fetches[i].st = "inflight"
    /\ Draw(outcome # "http_200")
    /\ LET f == [tasks[t].fetches EXCEPT
                    ![i].st = IF outcome \in Answered THEN "stored"
                              ELSE "rejected",
                    ![i].status = IF outcome \in Answered THEN StatusOf(outcome)
                                  ELSE @,
                    ![i].late = Replied(tasks[t])]
           urls == [j \in 1..Len(f) |-> f[j].url]
       IN /\ caches' = IF outcome \in Answered
                       THEN [caches EXCEPT ![CACHE_NAME] =
                               PutOfFetch(@, tasks[t].fetches[i].url,
                                          StatusOf(outcome))]
                       ELSE caches
          /\ tasks' = [tasks EXCEPT
                ![t].fetches = f,
                ![t].pc = IF PromiseAll(f) = "pending" THEN @ ELSE "replied",
                ![t].replies =
                    IF Replied(tasks[t]) \/ PromiseAll(f) = "pending" THEN @
                    ELSE IF PromiseAll(f) = "fulfilled" THEN TryReply(urls)
                    ELSE CatchReply(outcome),
                ![t].busyAtReply =
                    IF ~Replied(tasks[t]) /\ PromiseAll(f) = "fulfilled"
                    THEN {k \in TaskIds \ {t} : Busy(tasks[k])}
                    ELSE @]
    /\ UNCHANGED <<swState, installPc, reqs>>
    /\ UNCHANGED outsideWorker

\* A clearUrn that takes the keys of the model of that very name only.
ClearKeysOwnModel(t, ok) ==
    /\ tasks[t].op = "CLEAR_URN"
    /\ tasks[t].pc = "keys"
    /\ Draw(~ok)
    /\ LET requests == SelectSeq(CacheKeys(caches[CACHE_NAME]),
                               LAMBDA u : EndsWith(u, tasks[t].urn))
       IN tasks' = [tasks EXCEPT
             ![t].requests = IF ok THEN requests ELSE <<>>,
             ![t].pending = IF ok THEN requests ELSE <<>>,
             ![t].pc = IF ok /\ requests # <<>> THEN "deleting" ELSE "replied",
             ![t].pre = IF ok /\ requests # <<>> THEN @ ELSE {},
             ![t].replies = IF ~ok THEN CatchReply("storage_error")
                            ELSE IF requests = <<>> THEN TryReply(<<>>)
                            ELSE @]
    /\ UNCHANGED <<swState, installPc, caches, reqs>>
    /\ UNCHANGED outsideWorker

\* clearUrn: caches.open and cache.keys settle; the keys that contain the
\* urn are picked and their deletes start (none to delete: the reply).
ClearKeys(t, ok) ==
    /\ tasks[t].op = "CLEAR_URN"
    /\ tasks[t].pc = "keys"
    /\ Draw(~ok)
    /\ LET requests == clearUrnRequests(caches[CACHE_NAME], tasks[t].urn)
       IN tasks' = [tasks EXCEPT
             ![t].requests = IF ok THEN requests ELSE <<>>,
             ![t].pending = IF ok THEN requests ELSE <<>>,
             ![t].pc = IF ok /\ requests # <<>> THEN "deleting" ELSE "replied",
             ![t].pre = IF ok /\ requests # <<>> THEN @ ELSE {},
             ![t].replies = IF ~ok THEN CatchReply("storage_error")
                            ELSE IF requests = <<>> THEN TryReply(<<>>)
                            ELSE @]
    /\ UNCHANGED <<swState, installPc, caches, reqs>>
    /\ UNCHANGED outsideWorker

\* A clearUrn whose every delete also removes the keys that name the urn
\* at that moment.
ClearDeleteRescan(t) ==
    /\ tasks[t].op = "CLEAR_URN"
    /\ tasks[t].pc = "deleting"
    /\ tasks[t].pending # <<>>
    /\ caches' = [caches EXCEPT ![CACHE_NAME] =
                     {e \in CacheDelete(@, Head(tasks[t].pending)) :
                         ~Contains(e.url, tasks[t].urn)}]
    /\ LET last == Len(tasks[t].pending) = 1
       IN tasks' = [tasks EXCEPT
             ![t].pending = Tail(@),
             ![t].pc = IF last THEN "replied" ELSE @,
             ![t].pre = IF last THEN {} ELSE @,
             ![t].replies = IF last THEN TryReply(tasks[t].requests) ELSE @]
    /\ UNCHANGED <<swState, installPc, reqs, faults>>
    /\ UNCHANGED outsideWorker

\* clearUrn: the next cache.delete(req) settles (the cache serves the
\* deletes in the order they were asked for); after the last, the reply.
ClearDelete(t) ==
    /\ tasks[t].op = "CLEAR_URN"
    /\ tasks[t].pc = "deleting"
    /\ tasks[t].pending # <<>>
    /\ caches' = [caches EXCEPT ![CACHE_NAME] =
                     CacheDelete(@, Head(tasks[t].pending))]
    /\ LET last == Len(tasks[t].pending) = 1
       IN tasks' = [tasks EXCEPT
             ![t].pending = Tail(@),
             ![t].pc = IF last THEN "replied" ELSE @,
             ![t].pre = IF last THEN {} ELSE @,
             ![t].replies = IF last THEN TryReply(tasks[t].requests) ELSE @]
    /\ UNCHANGED <<swState, installPc, reqs, faults>>
    /\ UNCHANGED outsideWorker

\* listCached: caches.open and cache.keys settle, and the reply.
ListKeys(t, ok) ==
    /\ tasks[t].op = "LIST_CACHES"
    /\ tasks[t].pc = "keys"
    /\ Draw(~ok)
    /\ tasks' = [tasks EXCEPT
          ![t].pc = "replied",
          ![t].replies = IF ok THEN TryReply(listCached(caches[CACHE_NAME]))
                         ELSE CatchReply("storage_error")]
    /\ UNCHANGED <<swState, installPc, caches, reqs>>
    /\ UNCHANGED outsideWorker

\* ------------------------------------------------------- interception
\* The urls the controlled pages request (event.request.url is absolute).
ReqUrls ==
    { Origin \o <<"/index.html">>,
      Origin \o <<"/api/token">>,
      ViewerUrl(<<"style.css">>),
      ManifestUrl(<<"a">>) \o <<"?", "domain=app">>,
      DerivUrl(DerivativePrefix \o <<"a", "/output/", "t.png">>)
          \o <<"?", "domain=app">> }

NoResponse == Response(0, "none")

IsTokenRequest(url) == EndsWith(url, TokenSuffix)

\* The test that guards the background refresh of a cache hit.
IsPreRegistered(url) == SeqIncludes(STATIC_URLS, url) \/ SeqIncludes(API_URLS, url)

\* A fetchAsync without the network-first branch: every url asks the cache.
FirstStepCacheFirst(url) == "match"

\* Where fetchAsync first waits: on the network for the token endpoint, on
\* caches.match for any other url.
FirstStep(url) == IF IsTokenRequest(url) THEN "tokenfetch" ELSE "match"

\* A pass-through that keeps a copy of the network's answer.
PassThroughAndStore(cs, url, status) ==
    [cs EXCEPT ![CACHE_NAME] = CachePut(@, url, Response(status, "network"))]

\* What return fetch(event.request) leaves in the caches: what was there.
PassThrough(cs, url, status) == cs

\* The fetch event: fetchAsync runs to its first await.
Intercept(url) ==
    /\ swState = "ACTIVE"
    /\ OpCount < MaxOps
    /\ BusyCount < MaxBusy
    /\ reqs' = Append(reqs,
          [url |-> url,
           pc |-> FirstStep(url),
           tokenNet |-> "none",
           response |-> NoResponse,
           refresh |-> "none"])
    /\ UNCHANGED <<swState, installPc, caches, tasks, faults>>
    /\ UNCHANGED outsideWorker

\* The token request's fetch settles: its response is returned, or the
\* rejection is caught and the cache is asked.
TokenFetch(h, outcome) ==
    /\ reqs[h].pc = "tokenfetch"
    /\ Draw(outcome # "http_200")
    /\ reqs' = [reqs EXCEPT
          ![h].tokenNet = IF outcome \in Answered THEN "ok" ELSE "failed",
          ![h].response = IF outcome \in Answered
                          THEN Response(StatusOf(outcome), "network") ELSE @,
          ![h].pc = IF outcome \in Answered THEN "done" ELSE "match"]
    /\ UNCHANGED <<swState, installPc, caches, tasks>>
    /\ UNCHANGED outsideWorker

\* A caches.match that settles only once no CACHE_URN has a fetch under way.
MatchAfterTasks(h) ==
    /\ reqs[h].pc = "match"
    /\ \A t \in TaskIds : \A i \in 1..Len(tasks[t].fetches) :
          tasks[t].fetches[i].st # "inflight"
    /\ LET found == CachesMatch(caches, reqs[h].url)
       IN IF found = {}
          THEN reqs' = [reqs EXCEPT ![h].pc = "netfetch"]
          ELSE \E m \in found :
                  reqs' = [reqs EXCEPT
                     ![h].pc = "done",
                     ![h].response = m.resp,
                     ![h].refresh = IF IsPreRegistered(reqs[h].url)
                                    THEN "inflight" ELSE "none"]
    /\ UNCHANGED <<swState, installPc, caches, tasks, faults>>
    /\ UNCHANGED outsideWorker

\* caches.match settles: a match is returned (and the refresh of a
\* pre-registered url started), no match sends the request to the network.
Match(h) ==
    /\ reqs[h].pc = "match"
    /\ LET found == CachesMatch(caches, reqs[h].url)
       IN IF found = {}
          THEN reqs' = [reqs EXCEPT ![h].pc = "netfetch"]
          ELSE \E m \in found :
                  reqs' = [reqs EXCEPT
                     ![h].pc = "done",
                     ![h].response = m.resp,
                     ![h].refresh = IF IsPreRegistered(reqs[h].url)
                                    THEN "inflight" ELSE "none"]
    /\ UNCHANGED <<swState, installPc, caches, tasks, faults>>
    /\ UNCHANGED outsideWorker

\* return fetch(event.request) settles: nothing is stored.
NetFetch(h, outcome) ==
    /\ reqs[h].pc = "netfetch"
    /\ Draw(outcome # "http_200")
    /\ reqs' = [reqs EXCEPT
          ![h].response = IF outcome \in Answered
                          THEN Response(StatusOf(outcome), "network") ELSE @,
          ![h].pc = IF outcome \in Answered THEN "done" ELSE "failed"]
    /\ caches' = IF outcome \in Answered
                 THEN PassThrough(caches, reqs[h].url, StatusOf(outcome))
                 ELSE caches
    /\ UNCHANGED <<swState, installPc, tasks>>
    /\ UNCHANGED outsideWorker

\* The background cache.add(event.request) settles: a 2xx answer is stored,
\* anything else rejects and is logged.
Refresh(h, outcome) ==
    /\ reqs[h].refresh = "inflight"
    /\ Draw(outcome # "http_200")
    /\ caches' = IF outcome = "http_200"
                 THEN [caches EXCEPT ![CACHE_NAME] =
                         CachePut(@, reqs[h].url, Response(200, "refresh"))]
                 ELSE caches
    /\ reqs' = [reqs EXCEPT
          ![h].refresh = IF outcome = "http_200" THEN "stored" ELSE "failed"]
    /\ UNCHANGED <<swState, installPc, tasks>>
    /\ UNCHANGED outsideWorker

Next ==
    \/ InstallStart
    \/ InstallStatic
    \/ InstallApi
    \/ Activate
    \/ \E op \in Operations :
          \E urn \in (IF op \in {"CACHE_URN", "CLEAR_URN"} THEN Urns ELSE {NoUrn}) :
             Submit(op, urn)
    \/ \E t \in TaskIds : \E outcome \in {"ok", "network_error", "not_json"} :
          ListingSettle(t, outcome)
    \/ \E t \in TaskIds : \E i \in 1..Len(tasks[t].fetches) :
          \E outcome \in Answered \cup {"network_error", "put_error"} :
             FetchSettle(t, i, outcome)
    \/ \E t \in TaskIds : \E ok \in BOOLEAN : ClearKeys(t, ok)
    \/ \E t \in TaskIds : ClearDelete(t)
    \/ \E t \in TaskIds : \E ok \in BOOLEAN : ListKeys(t, ok)
    \/ \E url \in ReqUrls : Intercept(url)
    \/ \E h \in ReqIds : \E outcome \in Answered \cup {"network_error"} :
          TokenFetch(h, outcome)
    \/ \E h \in ReqIds : Match(h)
    \/ \E h \in ReqIds : \E outcome \in Answered \cup {"network_error"} :
          NetFetch(h, outcome)
    \/ \E h \in ReqIds : \E outcome \in Answered \cup {"network_error"} :
          Refresh(h, outcome)

Spec == Init /\ [][Next]_vars

\* ------------------------------------------------- the server: manifests
\* The roles parseManifest keeps.
roles ==
    { "Autodesk.CloudPlatform.DesignDescription",
      "Autodesk.CloudPlatform.PropertyDatabase",
      "Autodesk.CloudPlatform.IndexableContent",
      "leaflet-zip", "thumbnail", "graphics", "preview", "raas", "pdf", "lod" }

Has(rec, field) == field \in DOMAIN rec

\* node.field, undefined when the node has no such property.
Field(rec, field) == IF Has(rec, field) THEN rec[field] ELSE "undefined"

UnescapeChar(c) ==
    CASE c = "%2F" -> "/"
      [] c = "%3F" -> "?"
      [] c = "%2Foutput%2F" -> "/output/"
      [] c = "urn%3Aadsk.viewing%3Afs.file%3A" -> "urn:adsk.viewing:fs.file:"
      [] OTHER -> c

decodeURIComponent(s) == [i \in 1..Len(s) |-> UnescapeChar(s[i])]

\* The fragments of a urn that end in a slash.
HasSlash(tok) == tok \in {"/", "/output/", "sub/"}

\* urn.lastIndexOf('/'), counted in fragments; 0 when there is none.
LastSlash(u) ==
    IF \E i \in 1..Len(u) : HasSlash(u[i])
    THEN CHOOSE i \in 1..Len(u) :
            /\ HasSlash(u[i])
            /\ \A j \in (i + 1)..Len(u) : ~HasSlash(u[j])
    ELSE 0

\* basePath.indexOf('/'), counted in fragments; 0 when there is none.
FirstSlash(u) ==
    IF \E i \in 1..Len(u) : HasSlash(u[i])
    THEN CHOOSE i \in 1..Len(u) :
            /\ HasSlash(u[i])
            /\ \A j \in 1..(i - 1) : ~HasSlash(u[j])
    ELSE 0

\* getPathInfo: the decoded urn, its file name, its directory, and the
\* directory below the first slash with a leading output/ dropped.
getPathInfo(encodedURN) ==
    LET urn == decodeURIComponent(encodedURN)
        basePath == SubSeq(urn, 1, LastSlash(urn))
    IN [urn |-> urn,
        rootFileName |-> SubSeq(urn, LastSlash(urn) + 1, Len(urn)),
        localPath |-> SubSeq(basePath, FirstSlash(basePath) + 1, Len(basePath)),
        basePath |-> basePath]

\* The item parseManifest pushes for a node.
Item(node) ==
    [guid |-> Field(node, "guid"), mime |-> Field(node, "mime")]
        @@ getPathInfo(IF Has(node, "urn") THEN node.urn ELSE <<"undefined">>)

RECURSIVE parse(_)
RECURSIVE parseEach(_)
RECURSIVE parseSkipping(_)
RECURSIVE parseEachSkipping(_)

\* node.children.forEach(parse), when the node has children.
parseEach(kids) ==
    IF kids = <<>> THEN <<>> ELSE parse(Head(kids)) \o parseEach(Tail(kids))

parseEachSkipping(kids) ==
    IF kids = <<>> THEN <<>>
    ELSE parseSkipping(Head(kids)) \o parseEachSkipping(Tail(kids))

\* A parse that does not visit the children of a node whose role it does
\* not keep.
parseSkipping(node) ==
    IF Has(node, "role") /\ node.role \notin roles THEN <<>>
    ELSE (IF Has(node, "role") THEN <<Item(node)>> ELSE <<>>)
         \o (IF Has(node, "children") THEN parseEachSkipping(node.children)
             ELSE <<>>)

\* parse(node): the item pushed for the node when its role is one of roles,
\* then those of its children, in the order they are pushed.
parse(node) ==
    (IF Has(node, "role") /\ node.role \in roles THEN <<Item(node)>> ELSE <<>>)
    \o (IF Has(node, "children") THEN parseEach(node.children) ELSE <<>>)

\* parseManifest: parse({ children: manifest.derivatives }).
parseManifest(manifest) ==
    parse(IF Has(manifest, "derivatives")
          THEN [children |-> manifest.derivatives]
          ELSE [type |-> "root"])

\* The directory of the files of model a in the derivative service.
OutputDir == DerivativePrefix \o <<"a", "/output/">>

\* The nodes a manifest is made of, by kind: a viewable svf, a 2d sheet, a
\* property database, a thumbnail, a geometry node, a derivative node.
MakeNode(kind, guid) ==
    CASE kind = "G" -> [guid |-> guid, role |-> "graphics",
                        mime |-> "application/autodesk-svf",
                        urn |-> OutputDir \o <<"m.svf">>]
      [] kind = "F" -> [guid |-> guid, role |-> "graphics",
                        mime |-> "application/autodesk-f2d",
                        urn |-> OutputDir \o <<"sub/", "p.f2d">>]
      [] kind = "D" -> [guid |-> guid,
                        role |-> "Autodesk.CloudPlatform.PropertyDatabase",
                        mime |-> "application/autodesk-db",
                        urn |-> OutputDir \o <<"model.sdb">>]
      [] kind = "T" -> [guid |-> guid, role |-> "thumbnail",
                        mime |-> "image/png",
                        urn |-> OutputDir \o <<"t.png">>]
      [] kind = "V" -> [guid |-> guid, role |-> "3d", type |-> "geometry"]
      [] OTHER -> [guid |-> guid, outputType |-> "svf"]

\* A tree of kinds; the nodes get their guid from their place in the tree.
RECURSIVE Label(_, _)
Label(shape, path) ==
    IF shape.kids = <<>> THEN MakeNode(shape.kind, path)
    ELSE MakeNode(shape.kind, path)
         @@ [children |-> [j \in 1..Len(shape.kids) |->
                             Label(shape.kids[j], path \o <<j>>)]]

SeqsUpTo(S, n) == UNION {[1..m -> S] : m \in 0..n}

Shape(kind, kids) == [kind |-> kind, kids |-> kids]

\* The resources under a geometry node.
Shapes3 == {Shape(k, <<>>) : k \in {"G", "V"}}

\* The geometry nodes and thumbnails under a derivative.
Shapes2 == {Shape(k, kids) : k \in {"V", "T"}, kids \in SeqsUpTo(Shapes3, MaxKids)}

\* The entries of manifest.derivatives.
Shapes1 == {Shape(k, kids) : k \in {"N", "G"}, kids \in SeqsUpTo(Shapes2, MaxKids)}

\* A response body that is JSON without a derivatives property.
NoDerivatives == [type |-> "manifest"]

\* The manifests the derivative service may answer with.
Manifests ==
    {NoDerivatives, [derivatives |-> <<>>]}
        \cup {[derivatives |-> <<Label(sh, <<1>>)>>] : sh \in Shapes1}

\* parseManifest alone: a manifest comes in, its items come out.
ParseInit ==
    /\ InitWorker
    /\ pages = [p \in PageIds |-> ClosedPage]
    /\ fg = FgIdle
    /\ route \in {[pc |-> "manifest", manifest |-> m] : m \in Manifests}

ParseStep ==
    /\ route.pc = "manifest"
    /\ route' = [pc |-> "parsed", manifest |-> route.manifest,
                 items |-> parseManifest(route.manifest)]
    /\ UNCHANGED <<swState, installPc, caches, tasks, reqs, faults,
                   attempt, oldState, pages, fg>>

ParseNext == ParseStep

ParseSpec == ParseInit /\ [][ParseNext]_vars

\* ----------------------------------------------- the server: the route
\* The manifest of a model with a svf and a 2d sheet under a geometry node,
\* and a property database.
FullManifest ==
    [derivatives |->
        << Label(Shape("N", << Shape("V", << Shape("G", <<>>),
                                              Shape("F", <<>>) >>),
                                Shape("D", <<>>) >>),
                 <<1>>) >>]

\* The manifest of a model with one svf.
SvfManifest ==
    [derivatives |-> << Label(Shape("N", << Shape("G", <<>>) >>), <<1>>) >>]

\* The manifest of a model with one 2d sheet and a thumbnail.
SheetManifest ==
    [derivatives |-> << Label(Shape("N", << Shape("F", <<>>),
                                             Shape("T", <<>>) >>), <<1>>) >>]

\* The manifest of a model translated twice, to a svf each time.
TwoSvfManifest ==
    [derivatives |-> << Label(Shape("N", << Shape("G", <<>>) >>), <<1>>),
                        Label(Shape("N", << Shape("G", <<>>) >>), <<2>>) >>]

\* What the derivative service answers a manifest request with when the
\* status is 2xx.
UpstreamManifests ==
    {NoDerivatives, SvfManifest, SheetManifest, TwoSvfManifest, FullManifest}

\* The JSON body of an error answer of the derivative service.
Diagnostic == [diagnostic |-> "not found"]

\* The ways the fetch of getManifest and its res.json() end: the fetch
\* rejects; a non-2xx answer with a JSON body; a non-2xx answer whose body
\* is not JSON; a 2xx answer with a manifest.
ManifestOutcomes == {"network_error", "non2xx_json", "non2xx_text", "ok"}

\* The manifest.json of an archive: without assets, with none, with a
\* file, with two, with a file and an embedded one.
AssetManifests ==
    { [name |-> "no assets"],
      [assets |-> <<>>],
      [assets |-> << [URI |-> "t.png"] >>],
      [assets |-> << [URI |-> "t.png"], [URI |-> "g.bin"] >>],
      [assets |-> << [URI |-> "t.png"], [URI |-> "embed:/x"] >>] }

IsEmbedded(uri) == uri \in {"embed:/x"}

AssetUris(manifest) ==
    SelectSeq([i \in 1..Len(manifest.assets) |-> manifest.assets[i].URI],
              LAMBDA uri : ~IsEmbedded(uri))

getDerivativesSVF(manifest) ==
    IF ~Has(manifest, "assets") THEN <<>> ELSE AssetUris(manifest)

getDerivativesF2D(manifest) ==
    IF ~Has(manifest, "assets") THEN <<>>
    ELSE AssetUris(manifest) \o <<"manifest.json.gz">>

ArchiveMimes == {"application/autodesk-svf", "application/autodesk-f2d"}

\* The files of an item that needs no archive.
PlainFiles(item) ==
    IF item.mime = "application/autodesk-db"
    THEN <<"objects_attrs.json.gz", "objects_vals.json.gz",
           "objects_offs.json.gz", "objects_ids.json.gz",
           "objects_avs.json.gz", item.rootFileName>>
    ELSE <<item.rootFileName>>

\* The files of an item whose archive was read.
ArchiveFiles(item, manifest) ==
    IF item.mime = "application/autodesk-svf" THEN getDerivativesSVF(manifest)
    ELSE getDerivativesF2D(manifest)

\* items.map(async item => ...): every enumeration starts at once; those
\* that need an archive wait for it.
StartEnumerations(items) ==
    [i \in 1..Len(items) |->
        IF items[i].mime \in ArchiveMimes
        THEN [st |-> "pending", files |-> <<>>]
        ELSE [st |-> "done", files |-> PlainFiles(items[i])]]

\* res.json(urls): each item with its files.
OkResponse(items, enum) ==
    [status |-> 200,
     body |-> [i \in 1..Len(items) |-> items[i] @@ [files |-> enum[i].files]]]

\* next(err): the error handler of express answers.
ErrorResponse(err) == [status |-> 500, error |-> err]

NoAnswer == [status |-> 0]

\* await Promise.all(derivatives) inside the try of the route: the first
\* rejection goes to next(err), the last fulfilment to res.json.
Join(items, enum, err) ==
    IF \E i \in 1..Len(enum) : enum[i].st = "failed" THEN ErrorResponse(err)
    ELSE IF \E i \in 1..Len(enum) : enum[i].st = "pending" THEN NoAnswer
    ELSE OkResponse(items, enum)

\* GET /api/models/:urn/files arrives and asks for a token.
RouteRequest(urn) ==
    /\ route.pc = "idle"
    /\ route' = [pc |-> "token", urn |-> urn]
    /\ UNCHANGED <<swState, installPc, caches, tasks, reqs, faults,
                   attempt, oldState, pages, fg>>

\* getAccessToken settles: the fetch of the manifest starts, or the error
\* goes to next(err).
AccessTokenSettle(ok) ==
    /\ route.pc = "token"
    /\ route' = IF ok THEN [pc |-> "manifest", urn |-> route.urn]
                ELSE [pc |-> "responded",
                      urn |-> route.urn,
                      outcome |-> "not fetched",
                      manifest |-> Diagnostic,
                      resolved |-> "error",
                      items |-> <<>>,
                      enum |-> <<>>,
                      response |-> ErrorResponse("token_error")]
    /\ UNCHANGED <<swState, installPc, caches, tasks, reqs, faults,
                   attempt, oldState, pages, fg>>

\* getManifest gives a value to parse unless the fetch or res.json() rejects.
Resolved(outcome) == outcome \in {"ok", "non2xx_json"}

\* getManifest and parseManifest settle: the descriptors and the start of
\* their enumerations, or the error.
ManifestSettle(outcome, manifest) ==
    /\ route.pc = "manifest"
    /\ IF Resolved(outcome)
       THEN LET json == IF outcome = "ok" THEN manifest ELSE Diagnostic
                items == parseManifest(json)
                enum == StartEnumerations(items)
                response == Join(items, enum, "none")
            IN route' = [pc |-> IF response = NoAnswer THEN "enumerating"
                                ELSE "responded",
                         urn |-> route.urn,
                         outcome |-> outcome,
                         manifest |-> json,
                         resolved |-> "list",
                         items |-> items,
                         enum |-> enum,
                         response |-> response]
       ELSE route' = [pc |-> "responded",
                      urn |-> route.urn,
                      outcome |-> outcome,
                      manifest |-> Diagnostic,
                      resolved |-> "error",
                      items |-> <<>>,
                      enum |-> <<>>,
                      response |-> ErrorResponse(outcome)]
    /\ UNCHANGED <<swState, installPc, caches, tasks, reqs, faults,
                   attempt, oldState, pages, fg>>

\* The archive of one item is fetched, unpacked and parsed, or one of the
\* three throws. The route answers once: what settles later is dropped.
EnumSettle(i, ok, manifest) ==
    /\ route.pc \in {"enumerating", "responded"}
    /\ i \in 1..Len(route.enum)
    /\ route.enum[i].st = "pending"
    /\ LET enum == [route.enum EXCEPT ![i] =
                      IF ok THEN [st |-> "done",
                                  files |-> ArchiveFiles(route.items[i], manifest),
                                  \* history: the manifest of the archive
                                  archive |-> manifest]
                      ELSE [st |-> "failed", files |-> <<>>]]
           response == IF route.response # NoAnswer THEN route.response
                       ELSE Join(route.items, enum, "archive_error")
       IN route' = [route EXCEPT
             !.enum = enum,
             !.response = response,
             !.pc = IF response = NoAnswer THEN "enumerating" ELSE "responded"]
    /\ UNCHANGED <<swState, installPc, caches, tasks, reqs, faults,
                   attempt, oldState, pages, fg>>

ServerInit ==
    /\ InitWorker
    /\ pages = [p \in PageIds |-> ClosedPage]
    /\ fg = FgIdle
    /\ route = RouteIdle

ServerNext ==
    \/ \E urn \in Urns : RouteRequest(urn)
    \/ \E ok \in BOOLEAN : AccessTokenSettle(ok)
    \/ \E outcome \in ManifestOutcomes :
          \E manifest \in (IF outcome = "ok" THEN UpstreamManifests
                            ELSE {Diagnostic}) :
             ManifestSettle(outcome, manifest)
    \/ \E i \in 1..3 : \E ok \in BOOLEAN :
          \E manifest \in (IF ok THEN AssetManifests ELSE {[name |-> "none"]}) :
             EnumSettle(i, ok, manifest)

ServerSpec == ServerInit /\ [][ServerNext]_vars

\* ------------------------------------------------ the foreground page
outsidePage ==
    <<swState, installPc, caches, tasks, reqs, faults, attempt, oldState,
      pages, route>>

\* The models of the list, in the order of the list.
Models == <<<<"a">>, <<"a", "b">>>>

\* An entry of #models: the data-action and the text of its .model-status.
Entry(action, text) == [action |-> action, text |-> text]

\* The list as updateOverlay writes it: a star and 'clear' for a model some
\* cached URL names, an outline and 'cache' for the others.
Rendered(cached) ==
    [k \in 1..Len(Models) |->
        IF Models[k] \in cached THEN Entry("clear", "cached")
        ELSE Entry("cache", "not cached")]

\* updateOverlay: a model counts as cached when some listed url includes
\* its urn.
IsCached(cachedUrls, urn) ==
    \E i \in 1..Len(cachedUrls) : Contains(cachedUrls[i], urn)

InProgress(action) ==
    IF action = "cache" THEN "(caching...)" ELSE "(clearing...)"

OperationOf(action) == IF action = "cache" THEN "CACHE_URN" ELSE "CLEAR_URN"

\* A run of updateOverlay, started by the load (0) or by the finally of an
\* action.
OverlayRun(by) == [by |-> by, pc |-> "ready"]

\* The page after Autodesk.Viewing.Initializer: the listener of the list is
\* set, the first updateOverlay waits for the worker.
FgLoaded == [FgIdle EXCEPT !.overlays = <<OverlayRun(0)>>]

\* The replies a task can get.
PageReplies == {OkReply(<<>>), ErrorReply("failed")}

\* A finally that only runs after the try.
AfterTryOnly(reply) == IsOkReply(reply)

\* finally { updateOverlay(); }: whatever the reply.
Finally(reply) == TRUE

\* navigator.serviceWorker.ready resolves: a worker is active.
WorkerReady ==
    /\ ~fg.ready
    /\ fg' = [fg EXCEPT !.ready = TRUE]
    /\ UNCHANGED outsidePage

\* A click on the status of model k: cacheModel or clearCache by the
\* data-action of the entry; the text of the entry, then submitWorkerTask
\* waits for the worker.
Click(k) ==
    /\ Len(fg.clicks) < MaxClicks
    /\ k \in 1..Len(fg.dom)
    /\ LET action == fg.dom[k].action
           text == InProgress(action)
       IN fg' = [fg EXCEPT
             !.dom[k].text = text,
             !.clicks = Append(@, [action |-> action, urn |-> Models[k],
                                   shown |-> text, pc |-> "ready",
                                   reply |-> NoUrn])]
    /\ UNCHANGED outsidePage

\* req.active.postMessage(task, [channel.port2]) of an action.
Post(i) ==
    /\ fg.ready
    /\ i \in 1..Len(fg.clicks)
    /\ fg.clicks[i].pc = "ready"
    /\ fg' = [fg EXCEPT
          !.clicks[i].pc = "posted",
          !.outbox = Append(@, [operation |-> OperationOf(fg.clicks[i].action),
                                urn |-> fg.clicks[i].urn,
                                from |-> i])]
    /\ UNCHANGED outsidePage

\* channel.port1.onmessage of an action: the promise settles, the finally
\* runs.
ReplyArrives(i, reply) ==
    /\ i \in 1..Len(fg.clicks)
    /\ fg.clicks[i].pc = "posted"
    /\ fg' = [fg EXCEPT
          !.clicks[i].pc = "settled",
          !.clicks[i].reply = reply,
          !.overlays = IF Finally(reply) THEN Append(@, OverlayRun(i)) ELSE @]
    /\ UNCHANGED outsidePage

\* submitWorkerTask({ operation: 'LIST_CACHES' }) of updateOverlay.
OverlayPost(j) ==
    /\ fg.ready
    /\ j \in 1..Len(fg.overlays)
    /\ fg.overlays[j].pc = "ready"
    /\ fg' = [fg EXCEPT
          !.overlays[j].pc = "listing",
          !.outbox = Append(@, [operation |-> "LIST_CACHES", urn |-> NoUrn,
                                from |-> 0])]
    /\ UNCHANGED outsidePage

\* The reply to the listing: the fetch of the models, or the catch.
OverlayListed(j, reply) ==
    /\ j \in 1..Len(fg.overlays)
    /\ fg.overlays[j].pc = "listing"
    /\ fg' = [fg EXCEPT
          !.overlays[j].pc = IF IsOkReply(reply) THEN "fetching" ELSE "N/A"]
    /\ UNCHANGED outsidePage

\* The models arrive and the list is written, or the fetch fails and the
\* catch writes N/A.
OverlayFetched(j, ok, cached) ==
    /\ j \in 1..Len(fg.overlays)
    /\ fg.overlays[j].pc = "fetching"
    /\ fg' = [fg EXCEPT
          !.overlays[j].pc = IF ok THEN "rendered" ELSE "N/A",
          !.dom = IF ok THEN Rendered(cached) ELSE @]
    /\ UNCHANGED outsidePage

PageInit ==
    /\ InitWorker
    /\ pages = [p \in PageIds |-> IF p = 1 THEN FreePage ELSE ClosedPage]
    /\ route = RouteIdle
    /\ fg = FgLoaded

PageNext ==
    \/ WorkerReady
    \/ \E k \in 1..Len(Models) : Click(k)
    \/ \E i \in 1..MaxClicks : Post(i)
    \/ \E i \in 1..MaxClicks : \E reply \in PageReplies : ReplyArrives(i, reply)
    \/ \E j \in 1..(MaxClicks + 1) : OverlayPost(j)
    \/ \E j \in 1..(MaxClicks + 1) :
          \E reply \in PageReplies : OverlayListed(j, reply)
    \/ \E j \in 1..(MaxClicks + 1) : \E ok \in BOOLEAN :
          \E cached \in (IF ok THEN SUBSET Range(Models) ELSE {{}}) :
             OverlayFetched(j, ok, cached)

PageSpec == PageInit /\ [][PageNext]_vars

\* ---------------------------------------------------- the lifecycle alone
\* Any pages open, closed or uncontrolled at the start.
LifecycleInit ==
    /\ InitWorker
    /\ pages \in [PageIds -> {ClosedPage, OldPage, FreePage}]
    /\ route = RouteIdle
    /\ fg = FgIdle

LifecycleNext ==
    \/ InstallStart
    \/ InstallStatic
    \/ InstallApi
    \/ Activate
    \/ \E p \in PageIds : \E forced \in BOOLEAN : OpenPage(p, forced)
    \/ \E p \in PageIds : ClosePage(p)

LifecycleSpec == LifecycleInit /\ [][LifecycleNext]_vars

\* ---------------------------------------------------------- claims
TaskOps == {"CACHE_URN", "CLEAR_URN", "LIST_CACHES"}

WellFormedReply(r) ==
    \/ DOMAIN r = {"status", "urls"} /\ r.status = "ok"
    \/ DOMAIN r = {"error"}

\* C1: a message with operation CACHE_URN, CLEAR_URN or LIST_CACHES gets
\* exactly one reply on its port, {status:'ok', urls} or {error}: never two,
\* and one once messageAsync has run to its end, whatever the fetches and
\* cache operations did.
C1_ExactlyOneReply ==
    \A t \in TaskIds :
        tasks[t].op \in TaskOps =>
            /\ Len(tasks[t].replies) <= 1
            /\ \A i \in 1..Len(tasks[t].replies) : WellFormedReply(tasks[t].replies[i])
            /\ (tasks[t].pc = "replied" => Len(tasks[t].replies) = 1)

\* C1 witness: a CACHE_URN task whose listing succeeded, one of whose fetches
\* rejected, and that holds its one reply, an error.
C1_Witness ==
    \E t \in TaskIds :
        /\ tasks[t].op = "CACHE_URN"
        /\ tasks[t].pc = "replied"
        /\ \E i \in 1..Len(tasks[t].fetches) : tasks[t].fetches[i].st = "rejected"
        /\ Len(tasks[t].replies) = 1
        /\ IsErrorReply(tasks[t].replies[1])

\* C2: once a fetch of a CACHE_URN task (or its cache.put) has rejected, the
\* task's reply is an error reply and not {status:'ok'}, whatever became of
\* the other fetches.
C2_AnyRejectionFailsTask ==
    \A t \in TaskIds :
        (/\ tasks[t].op = "CACHE_URN"
         /\ \E i \in 1..Len(tasks[t].fetches) : tasks[t].fetches[i].st = "rejected")
        => /\ Replied(tasks[t])
           /\ \A r \in 1..Len(tasks[t].replies) : IsErrorReply(tasks[t].replies[r])

\* C2 witness: a task with a rejected fetch beside two stored ones, all
\* settled, answered with the error of the cache write.
C2_Witness ==
    \E t \in TaskIds :
        /\ tasks[t].op = "CACHE_URN"
        /\ \E i \in 1..Len(tasks[t].fetches) : tasks[t].fetches[i].st = "rejected"
        /\ Cardinality({i \in 1..Len(tasks[t].fetches) :
                           tasks[t].fetches[i].st = "stored"}) = 2
        /\ tasks[t].replies = <<ErrorReply("put_error")>>

\* C3 (as claimed): cacheUrn stores only 2xx responses, and a fetch answered
\* with another status makes the task reply with an error.
C3_OnlySuccessfulStored ==
    /\ \A e \in caches[CACHE_NAME] :
          e.resp.by = "cacheUrn" => IsOk(e.resp.status)
    /\ \A t \in TaskIds :
          (/\ tasks[t].op = "CACHE_URN"
           /\ \E i \in 1..Len(tasks[t].fetches) :
                 /\ tasks[t].fetches[i].st = "stored"
                 /\ ~IsOk(tasks[t].fetches[i].status))
          => ~RepliedOk(tasks[t])

\* The place of derivative k's own url in the list cacheUrn returns.
RECURSIVE UrlOffset(_, _)
UrlOffset(derivatives, k) ==
    IF k = 1 THEN 2
    ELSE UrlOffset(derivatives, k - 1) + 1 + Len(derivatives[k - 1].files)

\* C4: the urls of an ok reply to CACHE_URN are the manifest url, then for
\* each derivative of the listing, in order, its own url and one url per
\* file (basePath + file); 1 + sum (1 + #files) in all; and each was put in
\* the cache before the reply.
C4_OkReplyListsAllUrls ==
    \A t \in TaskIds :
        (tasks[t].op = "CACHE_URN" /\ RepliedOk(tasks[t])) =>
            LET urls == tasks[t].replies[1].urls
                ds == Derivatives(tasks[t].urn)
                n == Len(ds)
            IN /\ Len(urls) = (IF n = 0 THEN 1
                               ELSE UrlOffset(ds, n) + Len(ds[n].files))
               /\ urls[1] = baseUrl \o <<"/manifest/">> \o tasks[t].urn
               /\ \A k \in 1..n :
                     /\ urls[UrlOffset(ds, k)] =
                           baseUrl \o <<"/derivatives/">>
                               \o encodeURIComponent(ds[k].urn)
                     /\ \A j \in 1..Len(ds[k].files) :
                           urls[UrlOffset(ds, k) + j] =
                              baseUrl \o <<"/derivatives/">>
                                  \o encodeURIComponent(ds[k].basePath \o ds[k].files[j])
               /\ Len(tasks[t].fetches) = Len(urls)
               /\ \A i \in 1..Len(urls) :
                     /\ tasks[t].fetches[i].url = urls[i]
                     /\ tasks[t].fetches[i].st = "stored"

\* C4 witness: model a, with a derivative and a file, answered ok with its
\* three urls, all in the store.
C4_Witness ==
    \E t \in TaskIds :
        /\ tasks[t].op = "CACHE_URN"
        /\ tasks[t].urn = <<"a">>
        /\ RepliedOk(tasks[t])
        /\ Len(tasks[t].replies[1].urls) = 3
        /\ Range(tasks[t].replies[1].urls) \subseteq KeySet(caches[CACHE_NAME])

\* The urls of the one reply of a task answered ok.
ReplyUrls(t) == Range(t.replies[1].urls)

\* Task l, a LIST_CACHES, gets its ok reply in this step.
ListRepliesOk(l) ==
    /\ tasks[l].op = "LIST_CACHES"
    /\ ~Replied(tasks[l])
    /\ RepliedOk(tasks'[l])

\* The reply of a LIST_CACHES is the key set of the store at that moment,
\* each url once, and the step leaves every cache as it was.
ListIsExact(l) ==
    /\ ReplyUrls(tasks'[l]) = KeySet(caches[CACHE_NAME])
    /\ Len(tasks'[l].replies[1].urls) = Cardinality(KeySet(caches[CACHE_NAME]))
    /\ caches' = caches

\* CLEAR_URN task k had work left at some moment after CACHE_URN task c
\* replied ok (the list l that asks is answered in the current step).
ClearAfterReply(k, c) ==
    /\ tasks[k].op = "CLEAR_URN"
    /\ k \in tasks[c].busyAtReply \/ c \in tasks[k].seenOk

\* CLEAR_URN task k had work left at some moment after CACHE_URN task c
\* was issued.
ClearAfterIssue(k, c) ==
    /\ tasks[k].op = "CLEAR_URN"
    /\ k \in tasks[c].busyAtIssue \/ k > c

\* C5 (as claimed): the reply of LIST_CACHES is exactly the keys of the store
\* at that moment and the store is left unchanged; and a LIST_CACHES issued
\* after a CACHE_URN replied ok, with no CLEAR_URN at work since that reply,
\* lists every url the CACHE_URN returned.
C5_ListRoundTripAsClaimed ==
    [][\A l \in TaskIds :
          ListRepliesOk(l) =>
             /\ ListIsExact(l)
             /\ \A c \in tasks[l].seenOk :
                   (\A k \in TaskIds : ~ClearAfterReply(k, c))
                   => ReplyUrls(tasks[c]) \subseteq ReplyUrls(tasks'[l])]_vars

\* C5 (amended): the reply of LIST_CACHES is exactly the keys of the store
\* at that moment and the store is left unchanged; and a LIST_CACHES issued
\* after a CACHE_URN replied ok lists every url the CACHE_URN returned when
\* no CLEAR_URN was at work at any moment between the issue of that
\* CACHE_URN and the reply of the LIST_CACHES.
C5_ListRoundTrip ==
    [][\A l \in TaskIds :
          ListRepliesOk(l) =>
             /\ ListIsExact(l)
             /\ \A c \in tasks[l].seenOk :
                   (\A k \in TaskIds : ~ClearAfterIssue(k, c))
                   => ReplyUrls(tasks[c]) \subseteq ReplyUrls(tasks'[l])]_vars

\* C5 witness: a CLEAR_URN ran to its end, then CACHE_URN for model a was
\* answered ok with its three urls, then a LIST_CACHES was issued and
\* answered with the install urls and those three.
C5_Witness ==
    \E l \in TaskIds : \E c \in tasks[l].seenOk :
        /\ tasks[l].op = "LIST_CACHES"
        /\ RepliedOk(tasks[l])
        /\ \E k \in TaskIds : tasks[k].op = "CLEAR_URN" /\ k < c
        /\ \A k \in TaskIds : ~ClearAfterIssue(k, c)
        /\ Len(tasks[c].replies[1].urls) = 3
        /\ ReplyUrls(tasks[c]) \subseteq ReplyUrls(tasks[l])
        /\ Len(tasks[l].replies[1].urls) = Len(STATIC_URLS) + Len(API_URLS) + 3

\* Task t, a CLEAR_URN during which no other task had work left, gets its ok
\* reply in this step.
QuietClearRepliesOk(t) ==
    /\ tasks[t].op = "CLEAR_URN"
    /\ ~Replied(tasks[t])
    /\ RepliedOk(tasks'[t])
    /\ tasks'[t].quiet

\* C6: a CLEAR_URN(urn) that runs with no other task at work leaves the
\* store with the keys it had less those whose url contains urn, replies ok
\* with exactly those urls (each once), and with the empty list and an
\* unchanged store when no key contains urn.
C6_ClearRemovesExactlyMatching ==
    [][\A t \in TaskIds :
          QuietClearRepliesOk(t) =>
             LET before == tasks[t].pre
                 matching == {u \in before : Contains(u, tasks[t].urn)}
                 urls == tasks'[t].replies[1].urls
             IN /\ KeySet(caches'[CACHE_NAME]) = before \ matching
                /\ Range(urls) = matching
                /\ Len(urls) = Cardinality(matching)
                /\ matching = {} =>
                      /\ urls = <<>>
                      /\ caches'[CACHE_NAME] = caches[CACHE_NAME]
                /\ caches'[PRIOR_CACHE_NAME] = caches[PRIOR_CACHE_NAME]]_vars

\* C6 witness: after CACHE_URN for model a, a quiet CLEAR_URN for a took its
\* three urls out and left the install urls, and a quiet CLEAR_URN for ab
\* found nothing and replied the empty list.
C6_Witness ==
    /\ \E t \in TaskIds :
          /\ tasks[t].op = "CLEAR_URN"
          /\ tasks[t].quiet
          /\ RepliedOk(tasks[t])
          /\ Len(tasks[t].replies[1].urls) = 3
    /\ \E t \in TaskIds :
          /\ tasks[t].op = "CLEAR_URN"
          /\ tasks[t].quiet
          /\ tasks[t].replies = <<OkReply(<<>>)>>
    /\ Cardinality(caches[CACHE_NAME]) = Len(STATIC_URLS) + Len(API_URLS)

\* The response came from the network, not from a cache.
FromNetwork(r) == r.response.by = "network"

\* The response came from a cache.
FromCache(r) == r.response.by \in {"install", "refresh", "cacheUrn", "prior"}

\* C7: a request for the token endpoint whose network fetch was answered is
\* answered with that network response, whatever the caches hold; it is
\* answered from a cache only after its network fetch failed.
C7_TokenNetworkFirst ==
    \A h \in ReqIds :
        IsTokenRequest(reqs[h].url) =>
            /\ reqs[h].pc # "tokenfetch" => reqs[h].tokenNet # "none"
            /\ reqs[h].tokenNet = "ok" =>
                  /\ reqs[h].pc = "done"
                  /\ FromNetwork(reqs[h])
            /\ FromCache(reqs[h]) => reqs[h].tokenNet = "failed"

\* C7 witness: one token request answered by the network while the install
\* copy sat in the store, and one answered with that copy after its fetch
\* failed.
C7_Witness ==
    /\ \E h \in ReqIds :
          /\ IsTokenRequest(reqs[h].url)
          /\ reqs[h].tokenNet = "ok"
          /\ FromNetwork(reqs[h])
          /\ reqs[h].url \in KeySet(caches[CACHE_NAME])
    /\ \E h \in ReqIds :
          /\ IsTokenRequest(reqs[h].url)
          /\ reqs[h].tokenNet = "failed"
          /\ reqs[h].pc = "done"
          /\ reqs[h].response = Response(200, "install")

\* The entries of every cache whose key equals url once the query strings
\* of both are dropped.
EqualIgnoringSearch(url) ==
    {e \in UNION {caches[n] : n \in Range(CacheOrder)} :
        StripSearch(e.url) = StripSearch(url)}

\* C8: when caches.match settles for a request that is not a token request
\* and whose url equals a cached key once both query strings are dropped,
\* the request is answered at once with the cached response of such a key,
\* not by the network; and what the refresh does later never changes the
\* response that was given.
C8_CacheHitServesCached ==
    [][\A h \in ReqIds :
          /\ (/\ ~IsTokenRequest(reqs[h].url)
              /\ reqs[h].pc = "match"
              /\ reqs'[h].pc # "match"
              /\ EqualIgnoringSearch(reqs[h].url) # {})
             => /\ reqs'[h].pc = "done"
                /\ reqs'[h].response \in
                      {e.resp : e \in EqualIgnoringSearch(reqs[h].url)}
                /\ FromCache(reqs'[h])
          /\ reqs[h].pc = "done" =>
                /\ reqs'[h].pc = "done"
                /\ reqs'[h].response = reqs[h].response]_vars

\* C8 witness: the request for t.png with a query string was answered with
\* the response cacheUrn stored under the url without one, and the request
\* for style.css with the install copy while its refresh failed.
C8_Witness ==
    /\ \E h \in ReqIds :
          /\ reqs[h].pc = "done"
          /\ Contains(reqs[h].url, <<"?">>)
          /\ reqs[h].url \notin KeySet(caches[CACHE_NAME])
          /\ reqs[h].response.by = "cacheUrn"
    /\ \E h \in ReqIds :
          /\ reqs[h].pc = "done"
          /\ reqs[h].response = Response(200, "install")
          /\ reqs[h].refresh = "failed"

\* The keys a step adds to a cache.
NewKeys(n) == KeySet(caches'[n]) \ KeySet(caches[n])

\* The keys the step may add: those of the install lists while installing,
\* the url of a pre-registered request whose refresh stores in this step,
\* the url of a fetch of a CACHE_URN task that stores in this step.
AllowedNewKeys ==
    {ResolveUrl(u) : u \in {v \in Range(STATIC_URLS) \cup Range(API_URLS) :
                              swState = "INSTALLING"}}
    \cup {reqs[h].url : h \in {g \in ReqIds :
                                 /\ reqs[g].refresh = "inflight"
                                 /\ reqs'[g].refresh = "stored"
                                 /\ ResolveUrl(reqs[g].url) \in
                                       {ResolveUrl(u) : u \in Range(STATIC_URLS)
                                                              \cup Range(API_URLS)}}}
    \cup UNION {{tasks[t].fetches[i].url :
                    i \in {j \in 1..Len(tasks[t].fetches) :
                              /\ tasks[t].op = "CACHE_URN"
                              /\ tasks[t].fetches[j].st = "inflight"
                              /\ tasks'[t].fetches[j].st = "stored"}} :
                t \in TaskIds}

\* A step of fetchAsync for request h other than its background refresh:
\* the token fetch, caches.match, or the pass-through fetch settles.
InterceptionStep(h) ==
    /\ reqs[h].pc \in {"tokenfetch", "match", "netfetch"}
    /\ reqs'[h].pc # reqs[h].pc

\* C9: a request with no match in any cache is passed to the network and no
\* step of its interception changes a cache; and whenever a key appears in a
\* cache it was put there by install, by the refresh of a pre-registered
\* url, or by a fetch of a CACHE_URN task, never by a cache miss or by the
\* network-first fetch of the token.
C9_MissDoesNotPopulate ==
    [][/\ \A h \in ReqIds :
             /\ (/\ reqs[h].pc = "match"
                 /\ reqs'[h].pc # "match"
                 /\ EqualIgnoringSearch(reqs[h].url) = {})
                => reqs'[h].pc = "netfetch"
             /\ InterceptionStep(h) => caches' = caches
       /\ \A n \in Range(CacheOrder) : NewKeys(n) \subseteq AllowedNewKeys
       /\ NewKeys(PRIOR_CACHE_NAME) = {}]_vars

\* C9 witness: a request that missed was answered by the network and its
\* url is in no cache, with or without its query string.
C9_Witness ==
    \E h \in ReqIds :
        /\ ~IsTokenRequest(reqs[h].url)
        /\ reqs[h].pc = "done"
        /\ FromNetwork(reqs[h])
        /\ EqualIgnoringSearch(reqs[h].url) = {}

\* The urls install registered, as the cache holds them.
InstallRegistered ==
    {ResolveUrl(u) : u \in Range(STATIC_URLS) \cup Range(API_URLS)}

\* C10 (as claimed): a cache hit on a url that install registered, be it
\* listed in full or as a path of the origin, starts a background re-fetch,
\* which overwrites the entry when it succeeds; a cache hit on any other url
\* starts none.
C10_RefreshOfPreRegistered ==
    \A h \in ReqIds :
        (reqs[h].pc = "done" /\ FromCache(reqs[h])) =>
            /\ reqs[h].url \in InstallRegistered => reqs[h].refresh # "none"
            /\ reqs[h].url \notin InstallRegistered => reqs[h].refresh = "none"
            /\ reqs[h].refresh = "stored" =>
                  [url |-> reqs[h].url, resp |-> Response(200, "refresh")]
                      \in caches[CACHE_NAME]

\* Two CACHE_URN tasks for the same model, every fetch of both answered 200
\* and stored, in a run with no CLEAR_URN, no other model cached and the
\* upstream answering every fetch of a model the same.
TwoRunsDone(c, d) ==
    /\ c < d
    /\ tasks[c].op = "CACHE_URN"
    /\ tasks[d].op = "CACHE_URN"
    /\ tasks[c].urn = tasks[d].urn
    /\ \A t \in {c, d} :
          /\ tasks[t].pc = "replied"
          /\ tasks[t].fetches # <<>>
          /\ \A i \in 1..Len(tasks[t].fetches) :
                tasks[t].fetches[i].st = "stored" /\ tasks[t].fetches[i].status = 200
    /\ \A k \in TaskIds :
          /\ tasks[k].op # "CLEAR_URN"
          /\ tasks[k].op = "CACHE_URN" =>
                /\ tasks[k].urn = tasks[c].urn
                /\ \A i \in 1..Len(tasks[k].fetches) :
                      tasks[k].fetches[i].st = "stored"
                         => tasks[k].fetches[i].status = 200

\* What one successful run for the model leaves in the store beside the
\* entries of install.
SingleRunEntries(urn) ==
    {[url |-> u, resp |-> Response(200, "cacheUrn")] :
        u \in Range(CacheUrnUrls(urn, Derivatives(urn)))}

\* C11: every cache holds at most one entry per url; and two CACHE_URN runs
\* for the same model whose fetches all succeed, one after the other or
\* interleaved, both reply ok with the same urls and leave in the store the
\* keys and contents one run leaves.
C11_TwoRunsLikeOne ==
    /\ \A n \in Range(CacheOrder) :
          Cardinality(caches[n]) = Cardinality(KeySet(caches[n]))
    /\ \A c, d \in TaskIds :
          TwoRunsDone(c, d) =>
             /\ RepliedOk(tasks[c]) /\ RepliedOk(tasks[d])
             /\ tasks[c].replies = tasks[d].replies
             /\ {e \in caches[CACHE_NAME] : e.resp.by = "cacheUrn"}
                   = SingleRunEntries(tasks[c].urn)
             /\ KeySet(caches[CACHE_NAME]) =
                   InstallRegistered \cup KeySet(SingleRunEntries(tasks[c].urn))

\* C11 witness: two runs for model a whose fetches interleaved (the first
\* still had fetches out when the second was issued), both done.
C11_Witness ==
    \E c, d \in TaskIds :
        /\ TwoRunsDone(c, d)
        /\ c \in tasks[d].busyAtIssue
        /\ tasks[c].urn = <<"a">>
        /\ Cardinality({e \in caches[CACHE_NAME] : e.resp.by = "cacheUrn"}) = 3

\* C12 (as claimed): no intercepted request is answered from an entry of
\* the cache of the prior generation, and that cache is neither listed nor
\* cleared: it keeps its entries, and while no model was cached in this
\* generation no reply of LIST_CACHES or CLEAR_URN names one of its urls.
C12_PriorGenerationIgnored ==
    /\ \A h \in ReqIds : reqs[h].response.by # "prior"
    /\ caches[PRIOR_CACHE_NAME] = PriorEntries
    /\ (\A k \in TaskIds : tasks[k].op # "CACHE_URN") =>
          \A t \in TaskIds :
             RepliedOk(tasks[t]) =>
                ReplyUrls(tasks[t]) \cap KeySet(PriorEntries) = {}

\* C13: when install completes (the worker passes from INSTALLING to
\* ACTIVATING) the named cache holds an entry for every url of the static
\* list and of the API list; when one of the two pre-fetches fails the
\* worker is redundant at once, and a redundant worker never activates: the
\* next install is that of a new instance, from its first pre-fetch.
C13_InstallAllOrNothing ==
    [][/\ (swState = "INSTALLING" /\ swState' = "ACTIVATING") =>
             /\ InstallRegistered \subseteq KeySet(caches'[CACHE_NAME])
             /\ faults' = faults
       /\ (swState = "INSTALLING" /\ faults' # faults) =>
             swState' = "REDUNDANT"
       /\ swState' \in {"ACTIVATING", "ACTIVE"} =>
             swState \in {"INSTALLING", "ACTIVATING", "ACTIVE"}
       /\ (swState = "REDUNDANT" /\ swState' # "REDUNDANT") =>
             /\ swState' = "INSTALLING"
             /\ installPc' = "static"
             /\ attempt' = attempt + 1]_vars

\* C13 witness: a first instance failed a pre-fetch, a second one completed
\* its install with every url in the cache.
C13_Witness ==
    /\ attempt = 2
    /\ faults = 1
    /\ swState = "ACTIVATING"
    /\ InstallRegistered \subseteq KeySet(caches[CACHE_NAME])
    /\ Cardinality(InstallRegistered) = Len(STATIC_URLS) + Len(API_URLS)

\* C14: within one worker instance the state only moves INSTALLING ->
\* ACTIVATING -> ACTIVE (or to REDUNDANT from INSTALLING), one state at a
\* time, and an instance starts by UNINSTALLED/REDUNDANT -> INSTALLING; the
\* move to ACTIVATING does not wait for the pages of the preceding version,
\* whose worker is redundant from then on and not before; and when the
\* worker becomes ACTIVE every open page is controlled by it. A page is
\* never controlled by a worker that is redundant or not yet activating.
C14_LifecycleForward ==
    [][/\ attempt' = attempt =>
             \/ swState' = swState
             \/ <<swState, swState'>> \in
                   { <<"INSTALLING", "ACTIVATING">>,
                     <<"ACTIVATING", "ACTIVE">>,
                     <<"INSTALLING", "REDUNDANT">> }
       /\ attempt' # attempt =>
             /\ attempt' = attempt + 1
             /\ swState \in {"UNINSTALLED", "REDUNDANT"}
             /\ swState' = "INSTALLING"
       /\ (oldState' = "REDUNDANT") = (swState' \in {"ACTIVATING", "ACTIVE"})
       /\ (swState = "ACTIVATING" /\ swState' = "ACTIVE") =>
             \A p \in PageIds : IsOpen(pages[p]) => pages'[p].ctl = "new"
       /\ \A p \in PageIds :
             /\ pages'[p].ctl = "old" => oldState' = "ACTIVE"
             /\ pages'[p].ctl = "new" => swState' \in {"ACTIVATING", "ACTIVE"}]_vars

\* C14 witness: the worker is ACTIVE, having taken one page over from the
\* preceding version when activation began and claimed another that no
\* worker controlled.
C14_Witness ==
    /\ swState = "ACTIVE"
    /\ oldState = "REDUNDANT"
    /\ \E p \in PageIds : pages[p] = Page("new", "activation")
    /\ \E p \in PageIds : pages[p] = Page("new", "claim")

\* The nodes of a tree in depth-first pre-order: a node, then the nodes of
\* each of its children in turn.
RECURSIVE PreOrder(_)
RECURSIVE PreOrderAll(_)
PreOrder(node) ==
    <<node>> \o (IF Has(node, "children") THEN PreOrderAll(node.children)
                 ELSE <<>>)

PreOrderAll(nodes) ==
    IF nodes = <<>> THEN <<>>
    ELSE PreOrder(Head(nodes)) \o PreOrderAll(Tail(nodes))

\* The nodes of the manifest whose role is in the allow-list, in pre-order.
ListedNodes(manifest) ==
    SelectSeq(IF Has(manifest, "derivatives")
              THEN PreOrderAll(manifest.derivatives) ELSE <<>>,
              LAMBDA n : Has(n, "role") /\ n.role \in roles)

\* C17: the list parseManifest gives has one descriptor per node, at any
\* depth, whose role is in the allow-list, in depth-first pre-order, and
\* none for another node; the children of a node that is not kept are
\* visited all the same.
C17_OneDescriptorPerListedNode ==
    route.pc = "parsed" =>
        LET listed == ListedNodes(route.manifest)
        IN /\ Len(route.items) = Len(listed)
           /\ \A i \in 1..Len(listed) :
                 /\ route.items[i].guid = listed[i].guid
                 /\ route.items[i].mime = listed[i].mime
                 /\ route.items[i].urn = listed[i].urn

\* C17 witness: a manifest whose derivative node has no role, with a
\* geometry node of role 3d under it and a svf of role graphics under that
\* one: the svf, at depth three under two nodes that are not kept, is the
\* one descriptor.
C17_Witness ==
    /\ route.pc = "parsed"
    /\ Len(route.items) = 1
    /\ route.items[1].guid = <<1, 1, 1>>
    /\ ~Has(route.manifest.derivatives[1], "role")
    /\ route.manifest.derivatives[1].children[1].role = "3d"
\* C15: when the enumeration of one descriptor fails and those of the
\* others succeed, the listing of the files of the model still answers with
\* a success, the answer holds the files of every descriptor whose
\* enumeration succeeded, and the failed descriptor does not look like one
\* with an empty list of files.
EnumFailed(i) == route.enum[i].st = "failed"

OneFailedOthersDone ==
    /\ route.pc = "responded"
    /\ route.resolved = "list"
    /\ \E i \in 1..Len(route.enum) : EnumFailed(i)
    /\ \E i \in 1..Len(route.enum) : route.enum[i].st = "done"
    /\ \A i \in 1..Len(route.enum) : route.enum[i].st # "pending"

C15_FailureStaysPerDescriptor ==
    OneFailedOthersDone =>
        /\ route.response.status = 200
        /\ Len(route.response.body) = Len(route.items)
        /\ \A i \in 1..Len(route.enum) :
              IF EnumFailed(i)
              THEN route.response.body[i] # route.items[i] @@ [files |-> <<>>]
              ELSE route.response.body[i] =
                       route.items[i] @@ [files |-> route.enum[i].files]

\* C16: the descriptors of a model are an error when the fetch of the
\* manifest fails or is answered with a status that is not 2xx, and an empty
\* list, without an error, when the fetch succeeds and the manifest has no
\* derivatives.
ManifestSettled ==
    /\ route.pc \in {"enumerating", "responded"}
    /\ route.outcome \in ManifestOutcomes

C16_ManifestErrors ==
    ManifestSettled =>
        /\ route.outcome # "ok" => route.resolved = "error"
        /\ (route.outcome = "ok" /\ ~Has(route.manifest, "derivatives")) =>
              (route.resolved = "list" /\ route.items = <<>>)

\* C18: every cacheModel and clearCache shows the in-progress text of its
\* model, posts one task message, none before the worker is ready and never
\* a second, and starts one updateOverlay when its reply has arrived, none
\* before, whether the reply is a success or an error.
PostsOf(i) == {m \in 1..Len(fg.outbox) : fg.outbox[m].from = i}

UpdatesOf(i) == {j \in 1..Len(fg.overlays) : fg.overlays[j].by = i}

C18_OnePostOneUpdate ==
    \A i \in 1..Len(fg.clicks) :
        LET c == fg.clicks[i]
        IN /\ c.shown = InProgress(c.action)
           /\ Cardinality(PostsOf(i)) = IF c.pc = "ready" THEN 0 ELSE 1
           /\ \A m \in PostsOf(i) :
                 /\ fg.outbox[m].operation = OperationOf(c.action)
                 /\ fg.outbox[m].urn = c.urn
           /\ Cardinality(UpdatesOf(i)) = IF c.pc = "settled" THEN 1 ELSE 0
           /\ c.pc = "settled" => c.reply \in PageReplies

C18_Witness ==
    \E i, j \in 1..Len(fg.clicks) :
        /\ fg.clicks[i].pc = "settled" /\ IsOkReply(fg.clicks[i].reply)
        /\ fg.clicks[j].pc = "settled" /\ IsErrorReply(fg.clicks[j].reply)
        /\ fg.clicks[i].action = "cache" /\ fg.clicks[j].action = "clear"
        /\ \A u \in UpdatesOf(i) \cup UpdatesOf(j) :
              fg.overlays[u].pc \in {"rendered", "N/A"}

\* C19: while a CACHE_URN task has fetches under way, every step of every
\* intercepted request can be taken, and a new request and a new task
\* message are accepted: nothing of an interception waits for the end of
\* the CACHE_URN.
CacheUrnInFlight(t) ==
    /\ tasks[t].op = "CACHE_URN"
    /\ \E i \in 1..Len(tasks[t].fetches) : tasks[t].fetches[i].st = "inflight"

RoomForOne == OpCount < MaxOps /\ BusyCount < MaxBusy

C19_DispatchStaysFree ==
    (\E t \in TaskIds : CacheUrnInFlight(t)) =>
        /\ \A h \in ReqIds :
              /\ reqs[h].pc = "tokenfetch" => ENABLED TokenFetch(h, "http_200")
              /\ reqs[h].pc = "match" => ENABLED Match(h)
              /\ reqs[h].pc = "netfetch" => ENABLED NetFetch(h, "http_200")
              /\ reqs[h].refresh = "inflight" => ENABLED Refresh(h, "http_200")
        /\ (swState = "ACTIVE" /\ RoomForOne) =>
              /\ \A url \in ReqUrls : ENABLED Intercept(url)
              /\ ENABLED Submit("LIST_CACHES", NoUrn)

\* C19 witness: a CACHE_URN still has a fetch under way, a request was
\* answered with what an earlier fetch of a CACHE_URN stored, and a
\* LIST_CACHES was answered with a url of the model.
C19_Witness ==
    /\ \E t \in TaskIds : CacheUrnInFlight(t)
    /\ \A t \in TaskIds : tasks[t].op = "CACHE_URN" => CacheUrnInFlight(t)
    /\ \E h \in ReqIds :
          /\ reqs[h].pc = "done"
          /\ reqs[h].response.by = "cacheUrn"
    /\ \E l \in TaskIds :
          /\ tasks[l].op = "LIST_CACHES"
          /\ RepliedOk(tasks[l])
          /\ \E u \in ReplyUrls(tasks[l]) : Contains(u, baseUrl)

\* C20: a CLEAR_URN does not wait for a CACHE_URN of the same urn: while
\* the CACHE_URN has fetches under way the CLEAR_URN is accepted and each of
\* its deletes can be taken. It takes the keys that name the urn once, when
\* it enumerates the store, and a key leaves the store only as the next
\* of the keys some CLEAR_URN took then: what a CACHE_URN stores after the
\* enumeration stays.
Removed == KeySet(caches[CACHE_NAME]) \ KeySet(caches'[CACHE_NAME])

Naming(urn) == {u \in KeySet(caches[CACHE_NAME]) : Contains(u, urn)}

ClearEnumerates(t) ==
    /\ tasks[t].op = "CLEAR_URN"
    /\ tasks[t].pc = "keys"
    /\ tasks'[t].pc # "keys"
    /\ ~(Replied(tasks'[t]) /\ IsErrorReply(tasks'[t].replies[1]))

Deleting(t) == tasks[t].op = "CLEAR_URN" /\ tasks[t].pc = "deleting"

C20_ClearDoesNotWait ==
    [][/\ \A u \in Removed :
             \E t \in TaskIds :
                /\ Deleting(t)
                /\ u = Head(tasks[t].pending)
                /\ u \in Range(tasks[t].requests)
       /\ \A t \in TaskIds :
             /\ ClearEnumerates(t) =>
                   Range(tasks'[t].requests) = Naming(tasks[t].urn)
             /\ Deleting(t) =>
                   /\ tasks'[t].requests = tasks[t].requests
                   /\ ENABLED ClearDelete(t)
       /\ \A c \in TaskIds :
             (CacheUrnInFlight(c) /\ swState = "ACTIVE" /\ RoomForOne) =>
                 ENABLED Submit("CLEAR_URN", tasks[c].urn)
      ]_vars

\* C20 witness: a CACHE_URN and a CLEAR_URN of the same urn, the only tasks,
\* both answered ok, and the store holds some of the urls of the reply of the
\* CACHE_URN and lacks others.
C20_Witness ==
    /\ Len(tasks) = 2
    /\ \E c, t \in TaskIds :
          /\ tasks[c].op = "CACHE_URN" /\ RepliedOk(tasks[c])
          /\ tasks[t].op = "CLEAR_URN" /\ RepliedOk(tasks[t])
          /\ tasks[t].urn = tasks[c].urn
          /\ ~Busy(tasks[c]) /\ ~Busy(tasks[t])
          /\ ReplyUrls(tasks[c]) \cap KeySet(caches[CACHE_NAME]) # {}
          /\ ReplyUrls(tasks[c]) \ KeySet(caches[CACHE_NAME]) # {}

\* C21: a message whose operation is none of CACHE_URN, CLEAR_URN and
\* LIST_CACHES is answered too: once messageAsync has run to its end its port
\* holds one reply, an error.
C21_UnknownOperationAnswered ==
    \A t \in TaskIds :
        (tasks[t].op \notin TaskOps /\ ~Busy(tasks[t])) =>
            /\ Len(tasks[t].replies) = 1
            /\ IsErrorReply(tasks[t].replies[1])

\* C22: the files of a 2d sheet whose manifest.json.gz was fetched, unpacked
\* and parsed hold manifest.json.gz and every asset URI that is not embedded,
\* also when the manifest has no assets.
SheetEnumerated(i) ==
    /\ route.items[i].mime = "application/autodesk-f2d"
    /\ route.enum[i].st = "done"

C22_SheetListsItsManifest ==
    route.pc \in {"enumerating", "responded"} =>
        \A i \in 1..Len(route.enum) :
            SheetEnumerated(i) =>
                LET files == Range(route.enum[i].files)
                    archive == route.enum[i].archive
                IN /\ "manifest.json.gz" \in files
                   /\ Has(archive, "assets") =>
                         \A k \in 1..Len(archive.assets) :
                            ~IsEmbedded(archive.assets[k].URI) =>
                                archive.assets[k].URI \in files

\* C23 (as claimed): a CACHE_URN task writes nothing to the store after its
\* reply, ok or error.
LateWrite(t, i) ==
    /\ tasks[t].fetches[i].st = "stored"
    /\ tasks[t].fetches[i].late

C23_NoWriteAfterReply ==
    \A t \in TaskIds : \A i \in 1..Len(tasks[t].fetches) : ~LateWrite(t, i)

\* C23: a CACHE_URN task that replied ok made every write before the reply;
\* a write after the reply is that of a fetch left under way by a task that
\* replied with an error, and a task writes nothing once its fetches have
\* all settled.
C23_LateWritesOnlyAfterError ==
    \A t \in TaskIds :
        /\ RepliedOk(tasks[t]) =>
              \A i \in 1..Len(tasks[t].fetches) :
                  /\ tasks[t].fetches[i].st = "stored"
                  /\ ~tasks[t].fetches[i].late
        /\ \A i \in 1..Len(tasks[t].fetches) :
              LateWrite(t, i) =>
                  /\ Len(tasks[t].replies) = 1
                  /\ IsErrorReply(tasks[t].replies[1])
                  /\ \E j \in 1..Len(tasks[t].fetches) :
                        tasks[t].fetches[j].st = "rejected"
        /\ (tasks[t].op = "CACHE_URN" /\ ~Busy(tasks[t])) =>
              \A i \in 1..Len(tasks[t].fetches) : ~ENABLED FetchSettle(t, i, "http_200")

\* C23 witness: a task that replied with an error when one fetch rejected,
\* and whose two other fetches wrote to the store after that reply.
C23_Witness ==
    \E t \in TaskIds :
        /\ tasks[t].op = "CACHE_URN"
        /\ ~Busy(tasks[t])
        /\ IsErrorReply(tasks[t].replies[1])
        /\ Cardinality({i \in 1..Len(tasks[t].fetches) : LateWrite(t, i)}) = 2
        /\ \A i \in 1..Len(tasks[t].fetches) :
              LateWrite(t, i) => tasks[t].fetches[i].url \in KeySet(caches[CACHE_NAME])

\* Task t, a CLEAR_URN, deletes a key in this step.
ClearDeletes(t) ==
    /\ Deleting(t)
    /\ tasks'[t].pending # tasks[t].pending

\* CACHE_URN task c, of another model, replied ok before CLEAR_URN task t
\* arrived.
OtherModelCached(t, c) ==
    /\ c \in tasks[t].seenOk
    /\ tasks[c].urn # tasks[t].urn

\* C24 (as claimed): a CLEAR_URN of model A removes no url that a CACHE_URN
\* of another model B returned, also when A is a part of B.
C24_ClearSparesOtherModels ==
    [][\A t \in TaskIds :
          ClearDeletes(t) =>
             \A c \in TaskIds :
                OtherModelCached(t, c) => Removed \cap ReplyUrls(tasks[c]) = {}
      ]_vars

\* C24: a CLEAR_URN of model A removes no url that a CACHE_URN of another
\* model B returned, unless that url contains A; it removes every url of B
\* that contains A and was in the store when it enumerated.
C24_ClearSparesUrlsWithoutUrn ==
    [][\A t \in TaskIds :
          /\ ClearDeletes(t) =>
                \A c \in TaskIds :
                   OtherModelCached(t, c) =>
                      \A u \in Removed \cap ReplyUrls(tasks[c]) :
                         Contains(u, tasks[t].urn)
          /\ ClearEnumerates(t) =>
                \A c \in TaskIds :
                   OtherModelCached(t, c) =>
                      \A u \in ReplyUrls(tasks[c]) \cap KeySet(caches[CACHE_NAME]) :
                         Contains(u, tasks[t].urn) =>
                            u \in Range(tasks'[t].requests)
      ]_vars

\* C24 witness: after the models a and ab were cached, a CLEAR_URN of ab
\* took the manifest of ab out and the three urls of a are in the store.
C24_Witness ==
    \E t, c \in TaskIds :
        /\ tasks[t].op = "CLEAR_URN"
        /\ tasks[t].urn = <<"a", "b">>
        /\ RepliedOk(tasks[t])
        /\ Len(tasks[t].replies[1].urls) = 1
        /\ OtherModelCached(t, c)
        /\ Len(tasks[c].replies[1].urls) = 3
        /\ ReplyUrls(tasks[c]) \subseteq KeySet(caches[CACHE_NAME])

\* C25: the page shows a model as cached, from the urls of an ok reply to
\* LIST_CACHES, only if a CACHE_URN of that model has replied ok and the list
\* still holds the urls it returned; a model whose CACHE_URN replied with an
\* error is not shown as cached on that account.
CachedFor(l, urn) ==
    \E c \in TaskIds :
        /\ tasks[c].op = "CACHE_URN"
        /\ tasks[c].urn = urn
        /\ RepliedOk(tasks[c])
        /\ ReplyUrls(tasks[c]) \subseteq ReplyUrls(tasks[l])

C25_ShownCachedOnlyIfCached ==
    \A l \in TaskIds :
        (tasks[l].op = "LIST_CACHES" /\ RepliedOk(tasks[l])) =>
            \A urn \in Urns :
                IsCached(tasks[l].replies[1].urls, urn) => CachedFor(l, urn)

====
